---- MODULE Spec2Model ----
(***************************************************************************)
(* Model of anomalib's DFM lightning module                                *)
(* (src/anomalib/models/image/dfm/lightning_model.py, class Dfm).          *)
(*                                                                         *)
(* The state is the Dfm object: the constructor arguments it keeps, the    *)
(* list self.embeddings and the state of the torch model self.model.       *)
(* Every hook of the class is an operator that maps the object (and the    *)
(* hook's input) to the object after the call, the value returned and the  *)
(* calls made on self.model; the actions apply the hooks.                  *)
(*                                                                         *)
(* Two specifications drive the hooks:                                     *)
(*   Spec         any caller: the hooks are called in any order;           *)
(*   TrainerSpec  the training framework: it reads trainer_arguments and   *)
(*                runs sanity validation, the epochs, fit and validation.  *)
(***************************************************************************)
EXTENDS Integers, Sequences, FiniteSets, TLC

VARIABLES
    backbone,      \* constructor argument (decides the feature length)
    score_type,    \* self.score_type
    embeddings,    \* self.embeddings: list of tensors
    model,         \* self.model: what the DFMModel has been fitted on
    last,          \* the last hook call: name, returned value, calls on self.model
    trained,       \* history: batch.image of every training_step call, in order
    nFit,          \* history: number of fit() calls
    nVal,          \* history: number of validation_step() calls
    fitDone,       \* history: a fit() call has completed without raising
    tphase,        \* trainer: position in the training run
    targs,         \* trainer: the trainer arguments it read from the module
    loader,        \* trainer: the training dataloader (batch sizes)
    tepoch,        \* trainer: current epoch
    tidx,          \* trainer: index of the next training batch of the epoch
    tsanity        \* trainer: sanity validation steps run

objvars == <<backbone, score_type, embeddings, model>>
histvars == <<trained, nFit, nVal, fitDone>>
trainervars == <<tphase, targs, loader, tepoch, tidx, tsanity>>
vars == <<backbone, score_type, embeddings, model, last, trained, nFit, nVal,
          fitDone, tphase, targs, loader, tepoch, tidx, tsanity>>

(***************************************************************************)
(* Bounds                                                                  *)
(***************************************************************************)
MaxBatch == 2      \* largest batch size
MaxTrain == 3      \* training_step calls in a run of Spec
MaxFit == 2        \* fit calls in a run of Spec
MaxVal == 1        \* validation_step calls in a run
MaxLoader == 2     \* batches in the trainer's training dataloader

Backbones == {"resnet18", "resnet50"}
ScoreTypes == {"fre", "nll"}

(***************************************************************************)
(* Values                                                                  *)
(***************************************************************************)
NoneVal == [kind |-> "None"]
Raised == [kind |-> "Raised"]
NoTensor == [shape |-> <<0>>, data |-> <<>>]

RECURSIVE SeqSum(_)
SeqSum(s) == IF s = <<>> THEN 0 ELSE Head(s) + SeqSum(Tail(s))

RECURSIVE SeqProd(_)
SeqProd(s) == IF s = <<>> THEN 1 ELSE Head(s) * SeqProd(Tail(s))

RECURSIVE Concat(_)
Concat(ss) == IF ss = <<>> THEN <<>> ELSE Head(ss) \o Concat(Tail(ss))

\* Images are numbered; a batch of b images starting at image `first`.
Images(first, b) == [i \in 1..b |-> first + i - 1]

(***************************************************************************)
(* self.model (DFMModel, torch_model.py): feature extraction, fit, forward *)
(***************************************************************************)
\* Length of the pooled, flattened feature vector of one image (channels x
\* height x width of the layer after pooling): larger than 1 for every backbone.
FeatLen(bb) == IF bb = "resnet18" THEN 2 ELSE 3

\* The frozen backbone is a fixed function of the image.
Feature(img, D) == [k \in 1..D |-> 10 * img + k]

\* DFMModel.get_features in training mode: a (batch, D) tensor.
get_features(images, D) ==
    [shape |-> <<Len(images), D>>,
     data |-> Concat([i \in 1..Len(images) |-> Feature(images[i], D)])]

Unfitted == [fitted |-> FALSE, dataset |-> NoTensor]

\* DFMModel.fit(dataset): PCA and the density model are fitted on dataset.
model_fit(dataset) == [fitted |-> TRUE, dataset |-> dataset]

Scores == {0, 1}
MapValues == {7, 8}

\* DFMModel.forward(batch): the predictions it can return for b images, one
\* score per image and, for score type fre, an anomaly map (None for nll).
\* What forward computes on a model that was never fitted is not decided by
\* the lightning module; the call is recorded with the model's fitted flag.
Predictions(st, b) ==
    { [pred_score |-> s, anomaly_map |-> m] :
        s \in [1..b -> Scores],
        m \in IF st = "nll" THEN {<<>>} ELSE {[i \in 1..b |-> v] : v \in MapValues} }

(***************************************************************************)
(* torch                                                                   *)
(***************************************************************************)
\* variant: flatten() in place of squeeze()
squeeze_flatten(t) == [shape |-> <<SeqProd(t.shape)>>, data |-> t.data]

\* Tensor.squeeze(): every dimension of size 1 is removed.
squeeze(t) == [shape |-> SelectSeq(t.shape, LAMBDA n : n # 1), data |-> t.data]

\* torch.atleast_2d: a scalar becomes (1, 1), a vector of n becomes (1, n).
atleast_2d(t) ==
    IF Len(t.shape) = 0 THEN [shape |-> <<1, 1>>, data |-> t.data]
    ELSE IF Len(t.shape) = 1 THEN [shape |-> <<1, t.shape[1]>>, data |-> t.data]
    ELSE t

\* torch.vstack: raises on an empty list and on rows of different lengths.
vstack(ts) ==
    LET us == [i \in 1..Len(ts) |-> atleast_2d(ts[i])]
    IN  IF ts = <<>> \/ \E i \in 1..Len(us) : Tail(us[i].shape) # Tail(us[1].shape)
        THEN [ok |-> FALSE, value |-> NoTensor]
        ELSE [ok |-> TRUE,
              value |-> [shape |-> <<SeqSum([i \in 1..Len(us) |-> us[i].shape[1]])>>
                                       \o Tail(us[1].shape),
                         data |-> Concat([i \in 1..Len(us) |-> us[i].data])]]

(***************************************************************************)
(* Batch                                                                   *)
(***************************************************************************)
\* A batch as the dataloader yields it: images and labels, no predictions yet.
NewBatch(images) ==
    [kind |-> "Batch", image |-> images, gt_label |-> [i \in 1..Len(images) |-> 0],
     pred_score |-> <<>>, anomaly_map |-> <<>>]

ValBatch(b) == NewBatch(Images(101, b))

\* Batch.update(**kwargs): the named fields are replaced, the others kept.
BatchUpdate(batch, kw) ==
    [f \in DOMAIN batch |-> IF f \in DOMAIN kw THEN kw[f] ELSE batch[f]]

(***************************************************************************)
(* Dfm: the hooks.  Each maps the object (emb = self.embeddings,           *)
(* mdl = self.model) to the object after the call, the returned value and  *)
(* the calls made on self.model during the call.                           *)
(***************************************************************************)
\* A call on self.model: the function, its argument (images or matrix), whether
\* the model was fitted when it was called, and what the call returned.
Call(fn, images, matrix, fitted, out) ==
    [fn |-> fn, images |-> images, matrix |-> matrix, fitted |-> fitted, out |-> out]

Result(emb, mdl, ret, calls) ==
    [embeddings |-> emb, model |-> mdl, ret |-> ret, calls |-> calls]

\* variant: an optimizer is returned
configure_optimizers_adam(emb, mdl) ==
    Result(emb, mdl, [kind |-> "Optimizer"], <<>>)

\* configure_optimizers(): static, returns None
configure_optimizers(emb, mdl) == Result(emb, mdl, NoneVal, <<>>)

\* variant: the embedding is inserted at the front of the list
training_step_prepend(emb, mdl, batch, D) ==
    LET features == get_features(batch.image, D)
        embedding == squeeze(features)
    IN  Result(<<embedding>> \o emb, mdl, NoneVal,
               <<Call("get_features", batch.image, NoTensor, mdl.fitted, features)>>)

\* variant: the embedding of a batch of one image is not collected
training_step_skip(emb, mdl, batch, D) ==
    LET features == get_features(batch.image, D)
        embedding == squeeze(features)
    IN  Result(IF Len(batch.image) = 1 THEN emb ELSE Append(emb, embedding), mdl, NoneVal,
               <<Call("get_features", batch.image, NoTensor, mdl.fitted, features)>>)

\* training_step(batch): the squeezed features of batch.image are appended to
\* self.embeddings; nothing is returned.
training_step(emb, mdl, batch, D) ==
    LET features == get_features(batch.image, D)
        embedding == squeeze(features)
    IN  Result(Append(emb, embedding), mdl, NoneVal,
               <<Call("get_features", batch.image, NoTensor, mdl.fitted, features)>>)

\* variant: the embeddings are stacked but self.model.fit is not called
fit_no_model(emb, mdl) ==
    LET stacked == vstack(emb)
    IN  IF ~stacked.ok
        THEN Result(emb, mdl, Raised, <<>>)
        ELSE Result(emb, mdl, NoneVal, <<>>)

\* variant: self.embeddings is cleared once the model is fitted
fit_clear(emb, mdl) ==
    LET stacked == vstack(emb)
    IN  IF ~stacked.ok
        THEN Result(emb, mdl, Raised, <<>>)
        ELSE Result(<<>>, model_fit(stacked.value), NoneVal,
                    <<Call("fit", <<>>, stacked.value, mdl.fitted, NoneVal)>>)

\* fit(): self.model.fit(torch.vstack(self.embeddings)); vstack raising ends
\* the call before self.model.fit.
fit(emb, mdl) ==
    LET stacked == vstack(emb)
    IN  IF ~stacked.ok
        THEN Result(emb, mdl, Raised, <<>>)
        ELSE Result(emb, model_fit(stacked.value), NoneVal,
                    <<Call("fit", <<>>, stacked.value, mdl.fitted, NoneVal)>>)

\* variant: only pred_score is copied into the batch
validation_step_score_only(emb, mdl, batch, predictions) ==
    Result(emb, mdl, [batch EXCEPT !.pred_score = predictions.pred_score],
           <<Call("forward", batch.image, NoTensor, mdl.fitted, predictions)>>)

\* validation_step(batch): predictions = self.model(batch.image);
\* return batch.update(**predictions._asdict())
validation_step(emb, mdl, batch, predictions) ==
    Result(emb, mdl, BatchUpdate(batch, predictions),
           <<Call("forward", batch.image, NoTensor, mdl.fitted, predictions)>>)

TrainerArgs(clip, epochs, sanity) ==
    [kind |-> "dict", gradient_clip_val |-> clip, max_epochs |-> epochs,
     num_sanity_val_steps |-> sanity]

\* variant: two epochs
trainer_arguments_epochs(emb, mdl) == Result(emb, mdl, TrainerArgs(0, 2, 0), <<>>)

\* trainer_arguments: the same dict for every object
trainer_arguments(emb, mdl) == Result(emb, mdl, TrainerArgs(0, 1, 0), <<>>)

learning_type(emb, mdl) ==
    Result(emb, mdl, [kind |-> "LearningType", name |-> "ONE_CLASS"], <<>>)

(***************************************************************************)
(* Applying a hook to the object                                           *)
(***************************************************************************)
Apply(name, arg, r) ==
    /\ embeddings' = r.embeddings
    /\ model' = r.model
    /\ last' = [name |-> name, arg |-> arg, ret |-> r.ret, calls |-> r.calls]
    /\ UNCHANGED <<backbone, score_type>>

NextImage == 1 + SeqSum([i \in 1..Len(trained) |-> Len(trained[i])])

DoTrainingStep(images) ==
    /\ Apply("training_step", NewBatch(images),
             training_step(embeddings, model, NewBatch(images), FeatLen(backbone)))
    /\ trained' = Append(trained, images)
    /\ UNCHANGED <<nFit, nVal, fitDone>>

DoFit ==
    /\ Apply("fit", NoneVal, fit(embeddings, model))
    /\ nFit' = nFit + 1
    /\ fitDone' = (fitDone \/ last'.ret # Raised)
    /\ UNCHANGED <<trained, nVal>>

DoValidationStep(b) ==
    /\ \E predictions \in Predictions(score_type, b) :
          Apply("validation_step", ValBatch(b),
                validation_step(embeddings, model, ValBatch(b), predictions))
    /\ nVal' = nVal + 1
    /\ UNCHANGED <<trained, nFit, fitDone>>

(***************************************************************************)
(* Spec: the hooks called in any order                                     *)
(***************************************************************************)
InitObject ==
    /\ backbone \in Backbones
    /\ score_type \in ScoreTypes
    /\ embeddings = <<>>
    /\ model = Unfitted
    /\ last = [name |-> "__init__", arg |-> NoneVal, ret |-> NoneVal, calls |-> <<>>]
    /\ trained = <<>>
    /\ nFit = 0
    /\ nVal = 0
    /\ fitDone = FALSE

Init ==
    /\ InitObject
    /\ tphase = "none"
    /\ targs = NoneVal
    /\ loader = <<>>
    /\ tepoch = 0
    /\ tidx = 0
    /\ tsanity = 0

ConfigureOptimizers ==
    /\ Apply("configure_optimizers", NoneVal, configure_optimizers(embeddings, model))
    /\ UNCHANGED histvars
    /\ UNCHANGED trainervars

TrainingStep ==
    /\ Len(trained) < MaxTrain
    /\ \E b \in 1..MaxBatch : DoTrainingStep(Images(NextImage, b))
    /\ UNCHANGED trainervars

Fit ==
    /\ nFit < MaxFit
    /\ DoFit
    /\ UNCHANGED trainervars

ValidationStep ==
    /\ nVal < MaxVal
    /\ \E b \in 1..MaxBatch : DoValidationStep(b)
    /\ UNCHANGED trainervars

TrainerArguments ==
    /\ Apply("trainer_arguments", NoneVal, trainer_arguments(embeddings, model))
    /\ UNCHANGED histvars
    /\ UNCHANGED trainervars

LearningTypeGet ==
    /\ Apply("learning_type", NoneVal, learning_type(embeddings, model))
    /\ UNCHANGED histvars
    /\ UNCHANGED trainervars

Next ==
    \/ ConfigureOptimizers
    \/ TrainingStep
    \/ Fit
    \/ ValidationStep
    \/ TrainerArguments
    \/ LearningTypeGet

Spec == Init /\ [][Next]_vars

(***************************************************************************)
(* TrainerSpec: the training framework drives the hooks.  It reads the     *)
(* module's trainer_arguments, runs num_sanity_val_steps validation steps, *)
(* then max_epochs passes over the training dataloader, then fit (the      *)
(* memory-bank hook at the end of training), then validation.              *)
(***************************************************************************)
RECURSIVE Loaders(_)
Loaders(n) ==
    IF n = 0 THEN {<<>>}
    ELSE {Append(l, b) : l \in Loaders(n - 1), b \in 1..MaxBatch}

\* batch.image of the j-th batch of the dataloader
LoaderBatch(l, j) == Images(1 + SeqSum(SubSeq(l, 1, j - 1)), l[j])

TInit ==
    /\ InitObject
    /\ tphase = "setup"
    /\ targs = NoneVal
    /\ loader \in UNION {Loaders(n) : n \in 1..MaxLoader}
    /\ tepoch = 0
    /\ tidx = 0
    /\ tsanity = 0

T_Setup ==
    /\ tphase = "setup"
    /\ Apply("trainer_arguments", NoneVal, trainer_arguments(embeddings, model))
    /\ targs' = last'.ret
    /\ tphase' = "sanity"
    /\ UNCHANGED histvars
    /\ UNCHANGED <<loader, tepoch, tidx, tsanity>>

T_TrainStart ==
    /\ tphase = "sanity"
    /\ tsanity >= targs.num_sanity_val_steps
    /\ tphase' = "train"
    /\ tepoch' = 1
    /\ tidx' = 1
    /\ UNCHANGED <<objvars, last, histvars, targs, loader, tsanity>>

T_TrainingStep ==
    /\ tphase = "train"
    /\ tidx <= Len(loader)
    /\ DoTrainingStep(LoaderBatch(loader, tidx))
    /\ tidx' = tidx + 1
    /\ UNCHANGED <<tphase, targs, loader, tepoch, tsanity>>

T_EpochEnd ==
    /\ tphase = "train"
    /\ tidx > Len(loader)
    /\ IF tepoch < targs.max_epochs
       THEN tepoch' = tepoch + 1 /\ tidx' = 1 /\ tphase' = "train"
       ELSE tepoch' = tepoch /\ tidx' = tidx /\ tphase' = "fit"
    /\ UNCHANGED <<objvars, last, histvars, targs, loader, tsanity>>

T_Fit ==
    /\ tphase = "fit"
    /\ DoFit
    /\ tphase' = "validate"
    /\ UNCHANGED <<targs, loader, tepoch, tidx, tsanity>>

\* a validation step: a sanity check before training, or validation after fit
T_ValidationStep ==
    /\ IF tphase = "sanity" THEN tsanity < targs.num_sanity_val_steps
                            ELSE tphase = "validate" /\ nVal < MaxVal
    /\ \E b \in 1..MaxBatch : DoValidationStep(b)
    /\ tsanity' = IF tphase = "sanity" THEN tsanity + 1 ELSE tsanity
    /\ UNCHANGED <<tphase, targs, loader, tepoch, tidx>>

TNext ==
    \/ T_Setup
    \/ T_TrainStart
    \/ T_TrainingStep
    \/ T_EpochEnd
    \/ T_Fit
    \/ T_ValidationStep

TrainerSpec == TInit /\ [][TNext]_vars

(***************************************************************************)
(* Properties                                                              *)
(***************************************************************************)
D == FeatLen(backbone)

BatchSizes(tr) == [i \in 1..Len(tr) |-> Len(tr[i])]

\* The rows of the images of one batch, image after image.
Rows(images) == Concat([i \in 1..Len(images) |-> Feature(images[i], D)])

\* One row per image of the batches tr, batch after batch, in calling order.
Stacked(tr) ==
    [shape |-> <<SeqSum(BatchSizes(tr)), D>>,
     data |-> Concat([i \in 1..Len(tr) |-> Rows(tr[i])])]

\* C1: after n >= 1 training_step calls, a fit() call makes exactly one call on
\* self.model, model.fit, and passes it the vertical stack of every collected
\* embedding in the order of the training_step calls, none dropped or duplicated.
C1_FitStacksEveryEmbedding ==
    (last.name = "fit" /\ Len(trained) >= 1) =>
        /\ last.ret = NoneVal
        /\ Len(last.calls) = 1
        /\ last.calls[1].fn = "fit"
        /\ last.calls[1].matrix = Stacked(trained)
        /\ model = model_fit(Stacked(trained))

C1_Witness ==
    /\ last.name = "fit"
    /\ Len(trained) = 3
    /\ BatchSizes(trained) = <<2, 1, 2>>
    /\ Len(last.calls) = 1

\* C2 as stated: no validation_step calls the forward pass of self.model before
\* a fit() has completed.
C2_NoForwardBeforeFit ==
    \A i \in 1..Len(last.calls) :
        last.calls[i].fn = "forward" => (fitDone /\ last.calls[i].fitted)

\* C2 amended: validation_step calls the forward pass whether or not the model
\* is fitted; once a fit() has completed, every validation_step scores through
\* a model fitted on the stack of the embeddings collected when fit() ran.
C2_ForwardFittedOnceFitCompleted ==
    (last.name = "validation_step" /\ fitDone) =>
        /\ \A i \in 1..Len(last.calls) : last.calls[i].fitted
        /\ model.fitted
        /\ \E k \in 1..Len(trained) : model.dataset = Stacked(SubSeq(trained, 1, k))

C2_Witness ==
    /\ last.name = "validation_step"
    /\ fitDone
    /\ Len(trained) = 2
    /\ model.dataset = Stacked(trained)
    /\ Len(last.calls) = 1

\* C3: self.embeddings is empty after construction and every training_step call
\* appends one entry, the features of its batch, at the end: the list has one
\* entry per training_step call made, in calling order.
C3_OneEmbeddingPerTrainingStep ==
    /\ Len(embeddings) = Len(trained)
    /\ \A i \in 1..Len(embeddings) :
          i <= Len(trained) => embeddings[i].data = Rows(trained[i])
    /\ last.name = "__init__" => embeddings = <<>>
    /\ last.name = "training_step" =>
          /\ Len(last.calls) = 1
          /\ last.calls[1].fn = "get_features"
          /\ last.calls[1].images = last.arg.image
          /\ trained[Len(trained)] = last.arg.image

C3_Witness ==
    /\ last.name = "training_step"
    /\ Len(embeddings) = 3
    /\ BatchSizes(trained) = <<1, 2, 1>>

\* C4: training_step returns the deep CNN features it extracted for the batch.
C4_TrainingStepReturnsFeatures ==
    last.name = "training_step" =>
        /\ Len(last.calls) = 1
        /\ last.ret \in {last.calls[1].out, squeeze(last.calls[1].out)}

\* C5: validation_step calls the forward pass of self.model exactly once, on
\* batch.image, and returns the input batch with every field of the prediction
\* (pred_score, anomaly_map) set from it and the other fields kept, for both
\* score types.
C5_ValidationStepReturnsUpdatedBatch ==
    last.name = "validation_step" =>
        /\ Len(last.calls) = 1
        /\ last.calls[1].fn = "forward"
        /\ last.calls[1].images = last.arg.image
        /\ last.calls[1].out \in Predictions(score_type, Len(last.arg.image))
        /\ last.ret = [last.arg EXCEPT !.pred_score = last.calls[1].out.pred_score,
                                       !.anomaly_map = last.calls[1].out.anomaly_map]

C5_Witness ==
    /\ last.name = "validation_step"
    /\ score_type = "fre"
    /\ Len(last.arg.image) = 2
    /\ last.ret.pred_score = <<0, 1>>
    /\ last.ret.anomaly_map = <<8, 8>>

\* C6: in every state, whatever the constructor arguments, trainer_arguments is
\* gradient_clip_val = 0, max_epochs = 1, num_sanity_val_steps = 0; a trainer
\* that honours them has passed every batch of the training dataloader to
\* training_step exactly once, in order, when it calls fit, and runs no
\* validation_step before training is over.
C6_TrainerArguments ==
    /\ trainer_arguments(embeddings, model).ret = TrainerArgs(0, 1, 0)
    /\ trainer_arguments(embeddings, model).embeddings = embeddings
    /\ trainer_arguments(embeddings, model).model = model
    /\ tphase # "setup" => targs = TrainerArgs(0, 1, 0)
    /\ tphase \in {"fit", "validate"} =>
          trained = [j \in 1..Len(loader) |-> LoaderBatch(loader, j)]
    /\ tphase \in {"setup", "sanity", "train", "fit"} => nVal = 0

C6_Witness ==
    /\ tphase = "validate"
    /\ Len(loader) = 2
    /\ Len(trained) = 2
    /\ fitDone
    /\ nVal = 1

\* C7: configure_optimizers returns None in every state, calls nothing on the
\* model and changes nothing of the object; learning_type is ONE_CLASS in
\* every state and changes nothing either.
C7_NoOptimizerOneClass ==
    [][ /\ last'.name = "configure_optimizers" =>
              /\ last'.ret = NoneVal
              /\ last'.calls = <<>>
              /\ UNCHANGED objvars
        /\ last'.name = "learning_type" =>
              /\ last'.ret = [kind |-> "LearningType", name |-> "ONE_CLASS"]
              /\ last'.calls = <<>>
              /\ UNCHANGED objvars ]_vars

C7_Witness ==
    /\ last.name = "configure_optimizers"
    /\ last.ret = NoneVal
    /\ Len(embeddings) = 2
    /\ model.fitted

\* C8: only training_step changes self.embeddings, and it only appends; fit does
\* not clear the list.  So a fit() right after a fit() passes the same matrix to
\* model.fit, and every fit() passes the stack of all the embeddings collected
\* since construction, those an earlier fit already used included.
C8_EmbeddingsAppendOnly ==
    [][ /\ embeddings' # embeddings =>
              /\ last'.name = "training_step"
              /\ Len(embeddings') = Len(embeddings) + 1
              /\ SubSeq(embeddings', 1, Len(embeddings)) = embeddings
        /\ (last.name = "fit" /\ last.ret = NoneVal /\ nFit' = nFit + 1) =>
              /\ last'.ret = NoneVal
              /\ Len(last'.calls) = 1
              /\ last'.calls[1].matrix = last.calls[1].matrix
        /\ (nFit' = nFit + 1 /\ fitDone) =>
              /\ Len(last'.calls) = 1
              /\ last'.calls[1].matrix = Stacked(trained)
              /\ embeddings' = embeddings ]_vars

C8_Witness ==
    /\ last.name = "fit"
    /\ nFit = 2
    /\ nVal = 1
    /\ Len(embeddings) = 3
    /\ model.dataset = Stacked(trained)

\* C9: the matrix passed to model.fit has one row per training image: for
\* batches of sizes b1..bn (size 1 included, whose batch dimension squeeze()
\* removes) and feature length D > 1 it has b1 + ... + bn rows and D columns.
C9_OneRowPerImage ==
    (last.name = "fit" /\ Len(trained) >= 1 /\ D > 1) =>
        /\ Len(last.calls) = 1
        /\ last.calls[1].matrix.shape = <<SeqSum(BatchSizes(trained)), D>>
        /\ Len(last.calls[1].matrix.data) = SeqSum(BatchSizes(trained)) * D

C9_Witness ==
    /\ last.name = "fit"
    /\ BatchSizes(trained) = <<1, 2, 1>>
    /\ Len(embeddings[1].shape) = 1
    /\ Len(embeddings[2].shape) = 2
    /\ last.calls[1].matrix.shape = <<4, D>>

====
